---- MODULE Spec2Model ----
(***************************************************************************)
(* NimbusApp: the data-access layer (services/firebaseService.ts), the     *)
(* analytics functions and the fetch logic of the charts screen            *)
(* (app/(tabs)/charts.tsx) and of the home screen (app/(tabs)/index.tsx).  *)
(*                                                                         *)
(* JavaScript numbers are binary floating-point values.  A number is       *)
(* modelled as a reduced fraction <<n, d>> with d > 0, and every           *)
(* arithmetic operation rounds its exact result to the nearest value with  *)
(* a significand of Precision bits (ties to even), which is the IEEE-754   *)
(* rule the engine applies with 53 bits.  <<0, 0>> is NaN, <<1, 0>> and    *)
(* <<-1, 0>> are the infinities.  The exponent range is not bounded.       *)
(***************************************************************************)
EXTENDS Integers, Sequences, FiniteSets, TLC

VARIABLES
    pc,          \* position of the analytics / statistics call under study
    arg,         \* its argument record
    ret,         \* its return value
    store,       \* documents of the station collection in the remote store
    collections, \* the record metadados/collections of the remote store
    call,        \* the data-access call in progress (an async function)
    range,       \* ChartsScreen: useState<Range>
    mode,        \* ChartsScreen: useState<Mode>
    readings,    \* ChartsScreen: useState<Reading[]>
    loading,     \* the screen under study: useState(true)
    refreshing,  \* the screen under study: useState(false)
    inflight,    \* loadReadings / loadReading invocations suspended at their await
    issued,      \* number of loadReadings / loadReading invocations started so far
    shown,       \* which invocation's response readings currently holds (0: none)
    stations,        \* HomeScreen: useState<string[]>
    selectedStation, \* HomeScreen: useState('STATION_00')
    reading,         \* HomeScreen: useState<Reading | null>
    error,           \* HomeScreen: useState<string | null>
    stationsCall,    \* HomeScreen: the loadStations invocation of the mount
    db,              \* the station collections of the remote store, by name
    completed,       \* history: the loadReading invocations that ended, in order
    sinceFailure     \* history: a fetch ended in a store failure and the user
                     \* has not acted since

pureVars == <<pc, arg, ret>>
dataVars == <<store, collections, call>>
chartVars == <<range, mode, readings, loading, refreshing, inflight, issued, shown>>
homeVars == <<stations, selectedStation, reading, error, stationsCall, db,
              completed, sinceFailure>>
vars == <<pc, arg, ret, store, collections, call,
          range, mode, readings, loading, refreshing, inflight, issued, shown,
          stations, selectedStation, reading, error, stationsCall, db,
          completed, sinceFailure>>

(***************************************************************************)
(* Bounds of the model.                                                    *)
(***************************************************************************)
Precision == 9      \* bits of significand kept by the modelled arithmetic
MaxLen == 4         \* longest numeric series handed to the analytics functions
MaxWindow == 3      \* largest moving-average window
MaxSlopeMilli == 30 \* slopes handed to getTrendInfo range over -30/1000 .. 30/1000
MaxReadings == 3    \* longest sequence of readings handed to calculateStats
MaxTimestamp == 3   \* timestamps of stored documents range over 1..MaxTimestamp
MaxCountArg == 3    \* getAllReadings is called with maxCount in 1..MaxCountArg
MaxFetches == 3     \* loadReadings invocations of one run of the charts screen

None == "none"

(***************************************************************************)
(* Exact fractions.                                                        *)
(***************************************************************************)
Abs(x) == IF x < 0 THEN -x ELSE x

RECURSIVE GCD(_, _)
GCD(a, b) == IF b = 0 THEN a ELSE GCD(b, a % b)

\* the reduced fraction n/d (d # 0)
Q(n, d) ==
    LET g == GCD(Abs(n), Abs(d))
        s == IF d < 0 THEN -1 ELSE 1
    IN  <<s * (n \div g), s * (d \div g)>>

Num(k) == <<k, 1>>
NaN == <<0, 0>>
IsFinite(a) == a[2] # 0
IsInt(a) == a[2] = 1

QAdd(a, b) == Q(a[1] * b[2] + b[1] * a[2], a[2] * b[2])
QSub(a, b) == Q(a[1] * b[2] - b[1] * a[2], a[2] * b[2])
QMul(a, b) == Q(a[1] * b[1], a[2] * b[2])
QLt(a, b) == a[1] * b[2] < b[1] * a[2]
QLe(a, b) == a[1] * b[2] <= b[1] * a[2]

RECURSIVE Pow2(_)
Pow2(k) == IF k = 0 THEN 1 ELSE 2 * Pow2(k - 1)

(***************************************************************************)
(* Rounding to Precision significant bits, round-half-to-even.             *)
(***************************************************************************)
SignificandTop == Pow2(Precision)
SignificandLow == Pow2(Precision - 1)

RECURSIVE RoundPos(_, _)
RoundPos(n, d) ==
    IF n >= SignificandTop * d
    THEN QMul(RoundPos(n, 2 * d), Num(2))
    ELSE IF n < SignificandLow * d
    THEN QMul(RoundPos(2 * n, d), <<1, 2>>)
    ELSE LET m == n \div d
             r == n % d
         IN  IF 2 * r > d \/ (2 * r = d /\ m % 2 = 1)
             THEN Num(m + 1)
             ELSE Num(m)

Round(a) ==
    IF a[1] = 0 THEN Num(0)
    ELSE IF a[1] > 0 THEN RoundPos(a[1], a[2])
    ELSE QMul(Num(-1), RoundPos(-a[1], a[2]))

IsNaN(a) == a = NaN
Sign(k) == IF k > 0 THEN 1 ELSE IF k < 0 THEN -1 ELSE 0
Neg(a) == <<-a[1], a[2]>>

\* the JavaScript operators +, -, *, / (the sign of a zero is not kept)
FAdd(a, b) ==
    IF IsNaN(a) \/ IsNaN(b) THEN NaN
    ELSE IF ~IsFinite(a) THEN (IF ~IsFinite(b) /\ b # a THEN NaN ELSE a)
    ELSE IF ~IsFinite(b) THEN b
    ELSE Round(QAdd(a, b))
FSub(a, b) == FAdd(a, Neg(b))
FMul(a, b) ==
    IF IsNaN(a) \/ IsNaN(b) THEN NaN
    ELSE IF ~IsFinite(a) \/ ~IsFinite(b)
    THEN (IF a[1] = 0 \/ b[1] = 0 THEN NaN ELSE <<Sign(a[1]) * Sign(b[1]), 0>>)
    ELSE Round(QMul(a, b))
FDiv(a, b) ==
    IF IsNaN(a) \/ IsNaN(b) THEN NaN
    ELSE IF ~IsFinite(a)
    THEN (IF ~IsFinite(b) THEN NaN
          ELSE <<(IF b[1] < 0 THEN -1 ELSE 1) * a[1], 0>>)
    ELSE IF ~IsFinite(b) THEN Num(0)
    ELSE IF b[1] = 0
    THEN (IF a[1] = 0 THEN NaN ELSE <<Sign(a[1]), 0>>)
    ELSE Round(Q(a[1] * b[2], a[2] * b[1]))

\* a decimal literal n/d of the source text, or a stored decimal value
Lit(n, d) == Round(Q(n, d))

(***************************************************************************)
(* Array helpers.                                                          *)
(***************************************************************************)
Min2(a, b) == IF a < b THEN a ELSE b
Max2(a, b) == IF a > b THEN a ELSE b

\* Array.prototype.slice(start, end) on 0-based indices
Slice(s, start, end) ==
    LET len == Len(s)
        from == IF start < 0 THEN Max2(len + start, 0) ELSE Min2(start, len)
        to == IF end < 0 THEN Max2(len + end, 0) ELSE Min2(end, len)
    IN  IF to <= from THEN <<>> ELSE SubSeq(s, from + 1, to)

\* xs.reduce((a, b) => a + b, 0)
RECURSIVE SumFrom(_, _, _)
SumFrom(xs, k, acc) ==
    IF k > Len(xs) THEN acc ELSE SumFrom(xs, k + 1, FAdd(acc, xs[k]))

ReduceSum(xs) == SumFrom(xs, 1, Num(0))

Reverse(s) == [k \in 1..Len(s) |-> s[Len(s) + 1 - k]]

SeqsUpTo(S, n) == UNION {[1..k -> S] : k \in 0..n}

(***************************************************************************)
(* calculateMovingAverage (charts.tsx)                                     *)
(***************************************************************************)
\* variant: a partly filled window is divided by windowSize (zero padding)
MAEntry_Padded(data, windowSize, i) ==
    LET window == Slice(data, Max2(i - windowSize + 1, 0), i + 1)
    IN  FDiv(ReduceSum(window), Num(windowSize))

\* variant: the full window starts one sample too early
MAEntry_WideWindow(data, windowSize, i) ==
    IF i < windowSize - 1
    THEN LET available == Slice(data, 0, i + 1)
         IN  FDiv(ReduceSum(available), Num(Len(available)))
    ELSE LET window == Slice(data, Max2(i - windowSize, 0), i + 1)
         IN  FDiv(ReduceSum(window), Num(windowSize))

\* one iteration of the loop body, for index i (0-based)
MAEntry(data, windowSize, i) ==
    IF i < windowSize - 1
    THEN LET available == Slice(data, 0, i + 1)
         IN  FDiv(ReduceSum(available), Num(Len(available)))
    ELSE LET window == Slice(data, i - windowSize + 1, i + 1)
         IN  FDiv(ReduceSum(window), Num(windowSize))

calculateMovingAverage(data, windowSize) ==
    IF Len(data) = 0 THEN <<>>
    ELSE [k \in 1..Len(data) |-> MAEntry(data, windowSize, k - 1)]

(***************************************************************************)
(* calculateTrend (charts.tsx)                                             *)
(***************************************************************************)
\* the summation loop: the sums after the iterations i .. n-1 (0-based)
RECURSIVE TrendLoop(_, _, _)
TrendLoop(data, i, acc) ==
    IF i >= Len(data) THEN acc
    ELSE TrendLoop(data, i + 1,
            [xSum |-> FAdd(acc.xSum, Num(i)),
             ySum |-> FAdd(acc.ySum, data[i + 1]),
             xySum |-> FAdd(acc.xySum, FMul(Num(i), data[i + 1])),
             x2Sum |-> FAdd(acc.x2Sum, FMul(Num(i), Num(i)))])

TrendSums(data) ==
    TrendLoop(data, 0, [xSum |-> Num(0), ySum |-> Num(0),
                        xySum |-> Num(0), x2Sum |-> Num(0)])

\* variant: the intercept is the plain mean of the values
TrendFit_MeanIntercept(data) ==
    LET n == Num(Len(data))
        s == TrendSums(data)
        denominator == FSub(FMul(n, s.x2Sum), FMul(s.xSum, s.xSum))
        slope == IF denominator # Num(0)
                 THEN FDiv(FSub(FMul(n, s.xySum), FMul(s.xSum, s.ySum)),
                           denominator)
                 ELSE Num(0)
    IN  [denominator |-> denominator, slope |-> slope,
         intercept |-> FDiv(s.ySum, n)]

\* variant: the slope is divided out without the test of the denominator
TrendFit_NoGuard(data) ==
    LET n == Num(Len(data))
        s == TrendSums(data)
        denominator == FSub(FMul(n, s.x2Sum), FMul(s.xSum, s.xSum))
        slope == FDiv(FSub(FMul(n, s.xySum), FMul(s.xSum, s.ySum)), denominator)
        intercept == FDiv(FSub(s.ySum, FMul(slope, s.xSum)), n)
    IN  [denominator |-> denominator, slope |-> slope, intercept |-> intercept]

\* the locals denominator, slope and intercept
TrendFit(data) ==
    LET n == Num(Len(data))
        s == TrendSums(data)
        denominator == FSub(FMul(n, s.x2Sum), FMul(s.xSum, s.xSum))
        slope == IF denominator # Num(0)
                 THEN FDiv(FSub(FMul(n, s.xySum), FMul(s.xSum, s.ySum)),
                           denominator)
                 ELSE Num(0)
        intercept == FDiv(FSub(s.ySum, FMul(slope, s.xSum)), n)
    IN  [denominator |-> denominator, slope |-> slope, intercept |-> intercept]

calculateTrend(data) ==
    IF Len(data) = 0 THEN [slope |-> Num(0), trendLine |-> <<>>]
    ELSE LET fit == TrendFit(data)
         IN  [slope |-> fit.slope,
              trendLine |-> [k \in 1..Len(data) |->
                  FAdd(FMul(fit.slope, Num(k - 1)), fit.intercept)]]

(***************************************************************************)
(* getTrendInfo (charts.tsx)                                               *)
(***************************************************************************)
\* the literal 0.01 of the two comparisons
Threshold == Lit(1, 100)

\* Number.prototype.toFixed(3): the count n of thousandths for which n/1000
\* is nearest to x, the larger n on a tie (x >= 0)
ToFixed3(x) == (2 * 1000 * x[1] + x[2]) \div (2 * x[2])

\* variant: the two comparisons are inclusive
getTrendInfo_Inclusive(slope, unit) ==
    LET absSlope == <<Abs(slope[1]), slope[2]>>
        perReading == ToFixed3(absSlope)
    IN  IF QLe(Threshold, slope)
        THEN [direction |-> "rising", icon |-> "up", color |-> "#ef4444",
              text |-> <<"+", perReading, unit, "/reading">>]
        ELSE IF QLe(slope, QMul(Num(-1), Threshold))
        THEN [direction |-> "falling", icon |-> "down", color |-> "#22c55e",
              text |-> <<"", perReading, unit, "/reading">>]
        ELSE [direction |-> "stable", icon |-> "right", color |-> "#64748b",
              text |-> <<"Stable">>]

\* variant: a slope without unit is shown in the neutral color
getTrendInfo_UnitColor(slope, unit) ==
    LET absSlope == <<Abs(slope[1]), slope[2]>>
        perReading == ToFixed3(absSlope)
    IN  IF QLt(Threshold, slope)
        THEN [direction |-> "rising", icon |-> "up",
              color |-> IF unit = "" THEN "#64748b" ELSE "#ef4444",
              text |-> <<"+", perReading, unit, "/reading">>]
        ELSE IF QLt(slope, QMul(Num(-1), Threshold))
        THEN [direction |-> "falling", icon |-> "down", color |-> "#22c55e",
              text |-> <<"", perReading, unit, "/reading">>]
        ELSE [direction |-> "stable", icon |-> "right", color |-> "#64748b",
              text |-> <<"Stable">>]

getTrendInfo(slope, unit) ==
    LET absSlope == <<Abs(slope[1]), slope[2]>>
        perReading == ToFixed3(absSlope)
    IN  IF QLt(Threshold, slope)
        THEN [direction |-> "rising", icon |-> "up", color |-> "#ef4444",
              text |-> <<"+", perReading, unit, "/reading">>]
        ELSE IF QLt(slope, QMul(Num(-1), Threshold))
        THEN [direction |-> "falling", icon |-> "down", color |-> "#22c55e",
              text |-> <<"", perReading, unit, "/reading">>]
        ELSE [direction |-> "stable", icon |-> "right", color |-> "#64748b",
              text |-> <<"Stable">>]

(***************************************************************************)
(* calculateStats (firebaseService.ts)                                     *)
(***************************************************************************)
\* Math.min(...xs) and Math.max(...xs)
RECURSIVE MathMin(_)
MathMin(xs) ==
    IF Len(xs) = 0 THEN <<1, 0>>
    ELSE IF Len(xs) = 1 THEN xs[1]
    ELSE LET m == MathMin(Tail(xs)) IN IF QLt(xs[1], m) THEN xs[1] ELSE m

RECURSIVE MathMax(_)
MathMax(xs) ==
    IF Len(xs) = 0 THEN <<-1, 0>>
    ELSE IF Len(xs) = 1 THEN xs[1]
    ELSE LET m == MathMax(Tail(xs)) IN IF QLt(m, xs[1]) THEN xs[1] ELSE m

\* variant: no early return for the empty sequence
calculateStats_NoEmptyCase(rs) ==
    LET temps == [k \in 1..Len(rs) |-> rs[k].temperatura]
        humidities == [k \in 1..Len(rs) |-> rs[k].humidade]
        particulas == [k \in 1..Len(rs) |-> rs[k].particulas]
    IN  [avgTemp |-> FDiv(ReduceSum(temps), Num(Len(temps))),
         avgHumidity |-> FDiv(ReduceSum(humidities), Num(Len(humidities))),
         avgParticulas |-> FDiv(ReduceSum(particulas), Num(Len(particulas))),
         minTemp |-> MathMin(temps), maxTemp |-> MathMax(temps),
         minHumidity |-> MathMin(humidities),
         maxHumidity |-> MathMax(humidities)]

\* variant: the averages are the sums, not divided by the count
calculateStats_UndividedSum(rs) ==
    IF Len(rs) = 0 THEN calculateStats_NoEmptyCase(rs)
    ELSE LET r == calculateStats_NoEmptyCase(rs)
         IN  [r EXCEPT
                !.avgTemp = ReduceSum([k \in 1..Len(rs) |-> rs[k].temperatura]),
                !.avgHumidity = ReduceSum([k \in 1..Len(rs) |-> rs[k].humidade])]

\* variant: the humidity range is taken from the temperatures
calculateStats_TempForHumidity(rs) ==
    IF Len(rs) = 0
    THEN [avgTemp |-> Num(0), avgHumidity |-> Num(0), avgParticulas |-> Num(0),
          minTemp |-> Num(0), maxTemp |-> Num(0),
          minHumidity |-> Num(0), maxHumidity |-> Num(0)]
    ELSE LET temps == [k \in 1..Len(rs) |-> rs[k].temperatura]
             r == calculateStats_NoEmptyCase(rs)
         IN  [r EXCEPT !.minHumidity = MathMin(temps),
                       !.maxHumidity = MathMax(temps)]

\* variant: the summary also carries the range of the particulate counts
calculateStats_ParticleRange(rs) ==
    LET r == IF Len(rs) = 0 THEN calculateStats_TempForHumidity(rs)
             ELSE calculateStats_NoEmptyCase(rs)
        particulas == [k \in 1..Len(rs) |-> rs[k].particulas]
    IN  [f \in DOMAIN r \cup {"minParticulas", "maxParticulas"} |->
            IF f = "minParticulas" THEN MathMin(particulas)
            ELSE IF f = "maxParticulas" THEN MathMax(particulas)
            ELSE r[f]]

calculateStats(rs) ==
    IF Len(rs) = 0
    THEN [avgTemp |-> Num(0), avgHumidity |-> Num(0), avgParticulas |-> Num(0),
          minTemp |-> Num(0), maxTemp |-> Num(0),
          minHumidity |-> Num(0), maxHumidity |-> Num(0)]
    ELSE LET temps == [k \in 1..Len(rs) |-> rs[k].temperatura]
             humidities == [k \in 1..Len(rs) |-> rs[k].humidade]
             particulas == [k \in 1..Len(rs) |-> rs[k].particulas]
         IN  [avgTemp |-> FDiv(ReduceSum(temps), Num(Len(temps))),
              avgHumidity |-> FDiv(ReduceSum(humidities), Num(Len(humidities))),
              avgParticulas |-> FDiv(ReduceSum(particulas), Num(Len(particulas))),
              minTemp |-> MathMin(temps), maxTemp |-> MathMax(temps),
              minHumidity |-> MathMin(humidities),
              maxHumidity |-> MathMax(humidities)]

(***************************************************************************)
(* The analytics functions and calculateStats applied to bounded inputs.   *)
(***************************************************************************)
Tenth == Lit(1, 10)
Samples == {Num(0), Num(1), Num(2), Tenth}
Series == SeqsUpTo(Samples, MaxLen)
Slopes == {Lit(k, 1000) : k \in (-MaxSlopeMilli)..MaxSlopeMilli}
Units == {"degC", "%", ""}

Reading(t, h, p, ts) ==
    [temperatura |-> t, humidade |-> h, particulas |-> p, timestamp |-> ts]

SampleReadings ==
    {Reading(Num(21), Num(40), Num(3), 1), Reading(Num(24), Num(55), Num(8), 2),
     Reading(Tenth, Tenth, Num(0), 3), Reading(Num(-2), Num(40), Tenth, 4),
     Reading(Lit(213, 10), Num(100), Num(5), 5)}

AnalyticsArgs ==
    {[fn |-> "calculateMovingAverage", data |-> d, windowSize |-> w] :
        d \in Series, w \in (1 - MaxWindow)..MaxWindow}
    \cup {[fn |-> "calculateTrend", data |-> d] : d \in Series}
    \cup {[fn |-> "getTrendInfo", slope |-> sl, unit |-> u] :
        sl \in Slopes, u \in Units}
    \cup {[fn |-> "calculateStats", readings |-> rs] :
        rs \in SeqsUpTo(SampleReadings, MaxReadings)}

\* the JavaScript values null and undefined, and an array value where a
\* variable may hold any of the three
Null == [js |-> "null"]
Undefined == [js |-> "undefined"]
Arr(items) == [js |-> "array", items |-> items]
Str(chars) == [js |-> "string", value |-> chars]

NoCall == [op |-> "none", phase |-> "idle"]

\* the result of getDoc: the record is absent, or exists with data
Absent == [exists |-> FALSE, data |-> [js |-> "undefined"]]
Existing(data) == [exists |-> TRUE, data |-> data]

DataIdle ==
    /\ store = {}
    /\ collections = Absent
    /\ call = NoCall

ChartsIdle ==
    /\ range = "24h"
    /\ mode = "overview"
    /\ readings = <<>>
    /\ loading = TRUE
    /\ refreshing = FALSE
    /\ inflight = {}
    /\ issued = 0
    /\ shown = 0

PureIdle ==
    /\ pc = "ready"
    /\ arg = None
    /\ ret = None

DefaultStation == "STATION_00"

HomeIdle ==
    /\ stations = <<>>
    /\ selectedStation = DefaultStation
    /\ reading = Null
    /\ error = Null
    /\ stationsCall = [status |-> "idle", data |-> Arr(<<>>)]
    /\ db = <<>>
    /\ completed = <<>>
    /\ sinceFailure = FALSE

AnalyticsInit ==
    /\ pc = "ready"
    /\ arg \in AnalyticsArgs
    /\ ret = None
    /\ DataIdle
    /\ ChartsIdle
    /\ HomeIdle

Return(v) ==
    /\ ret' = v
    /\ pc' = "done"
    /\ UNCHANGED <<arg, store, collections, call, range, mode, readings,
                   loading, refreshing, inflight, issued, shown, homeVars>>

CallMovingAverage ==
    /\ pc = "ready"
    /\ arg.fn = "calculateMovingAverage"
    /\ Return(calculateMovingAverage(arg.data, arg.windowSize))

CallTrend ==
    /\ pc = "ready"
    /\ arg.fn = "calculateTrend"
    /\ Return(calculateTrend(arg.data))

CallTrendInfo ==
    /\ pc = "ready"
    /\ arg.fn = "getTrendInfo"
    /\ Return(getTrendInfo(arg.slope, arg.unit))

CallStats ==
    /\ pc = "ready"
    /\ arg.fn = "calculateStats"
    /\ Return(calculateStats(arg.readings))

AnalyticsNext ==
    \/ CallMovingAverage
    \/ CallTrend
    \/ CallTrendInfo
    \/ CallStats

SpecAnalytics == AnalyticsInit /\ [][AnalyticsNext]_vars

Returned(fn) == pc = "done" /\ arg.fn = fn

(***************************************************************************)
(* Properties of the analytics functions.                                  *)
(***************************************************************************)
\* the last min(windowSize, i + 1) samples ending at index i (0-based)
TrailingWindow(data, windowSize, i) ==
    LET cnt == Min2(windowSize, i + 1)
    IN  [j \in 1..cnt |-> data[i - cnt + 1 + j]]

\* the mean of a non-empty series, in the arithmetic of the program
Mean(xs) == FDiv(ReduceSum(xs), Num(Len(xs)))

\* C1: for every series and every window size >= 1, calculateMovingAverage
\* returns a series of the same length whose entry i is the mean of the last
\* min(windowSize, i + 1) samples ending at i, and the empty series for the
\* empty series.
C1_MovingAverageIsTrailingMean ==
    Returned("calculateMovingAverage") /\ arg.windowSize >= 1 =>
        /\ Len(ret) = Len(arg.data)
        /\ \A i \in 0..(Len(arg.data) - 1) :
              ret[i + 1] = Mean(TrailingWindow(arg.data, arg.windowSize, i))
        /\ (arg.data = <<>> => ret = <<>>)

\* a partly filled window followed by full windows: [1,2,0,1] with window 3
C1_Witness ==
    /\ Returned("calculateMovingAverage")
    /\ arg.data = <<Num(1), Num(2), Num(0), Num(1)>>
    /\ arg.windowSize = 3
    /\ ret = <<Num(1), <<3, 2>>, Num(1), Num(1)>>

IsIntSeries(data) == \A k \in 1..Len(data) : IsInt(data[k])

\* data[i] = a + b*i exactly, with a = data[0] and b = data[1] - data[0]
AffineSlope(data) == QSub(data[2], data[1])

ExactlyAffine(data) ==
    /\ Len(data) >= 2
    /\ \A k \in 1..Len(data) :
          data[k] = QAdd(data[1], QMul(AffineSlope(data), Num(k - 1)))

\* exact sum of f(0), ..., f(n-1)
RECURSIVE QSum(_, _)
QSum(f, n) == IF n = 0 THEN Num(0) ELSE QAdd(QSum(f, n - 1), f[n - 1])

\* the least-squares coefficients of the values against the index 0..n-1,
\* in exact arithmetic (n >= 1; the slope of a single sample is 0)
LeastSquares(data) ==
    LET n == Len(data)
        Sx == QSum([i \in 0..(n - 1) |-> Num(i)], n)
        Sy == QSum([i \in 0..(n - 1) |-> data[i + 1]], n)
        Sxy == QSum([i \in 0..(n - 1) |-> QMul(Num(i), data[i + 1])], n)
        Sxx == QSum([i \in 0..(n - 1) |-> Num(i * i)], n)
        den == QSub(QMul(Num(n), Sxx), QMul(Sx, Sx))
        num == QSub(QMul(Num(n), Sxy), QMul(Sx, Sy))
        slope == IF den = Num(0) THEN Num(0)
                 ELSE Q(num[1] * den[2], num[2] * den[1])
        icpt == LET t == QSub(Sy, QMul(slope, Sx)) IN Q(t[1], t[2] * n)
    IN  [slope |-> slope, intercept |-> icpt]

Representable(a) == Round(a) = a

TrendShape ==
    /\ Len(ret.trendLine) = Len(arg.data)
    /\ \A i \in 0..(Len(arg.data) - 1) :
          ret.trendLine[i + 1] =
              FAdd(FMul(ret.slope, Num(i)), TrendFit(arg.data).intercept)

\* C2 as stated: the trend line has the length of the data, entry i is
\* slope*i + intercept, and every series exactly affine in its index gives
\* back its own slope and itself as trend line.
C2_AffineRecoveredAlways ==
    Returned("calculateTrend") =>
        /\ TrendShape
        /\ (ExactlyAffine(arg.data) =>
              /\ ret.slope = AffineSlope(arg.data)
              /\ ret.trendLine = arg.data)

\* C2 (amended): the trend line has the length of the data and entry i is
\* slope*i + intercept; for an integer-valued series (whose sums and products
\* are exact) with representable least-squares coefficients, slope and
\* intercept are exactly these coefficients; and a series affine in its index
\* with integer offset and integer slope gives back its slope and itself.
C2_LeastSquaresWhenExact ==
    Returned("calculateTrend") =>
        /\ TrendShape
        /\ (/\ Len(arg.data) >= 1
            /\ IsIntSeries(arg.data)
            /\ Representable(LeastSquares(arg.data).slope)
            /\ Representable(LeastSquares(arg.data).intercept)
            => /\ ret.slope = LeastSquares(arg.data).slope
               /\ TrendFit(arg.data).intercept = LeastSquares(arg.data).intercept)
        /\ (ExactlyAffine(arg.data) /\ IsIntSeries(arg.data) =>
              /\ ret.slope = AffineSlope(arg.data)
              /\ ret.trendLine = arg.data)

\* the falling line [2,1,0]
C2_Witness ==
    /\ Returned("calculateTrend")
    /\ arg.data = <<Num(2), Num(1), Num(0)>>
    /\ ret.slope = Num(-1)
    /\ ret.trendLine = arg.data

\* C3: rising exactly when slope > 0.01, falling exactly when slope < -0.01,
\* stable otherwise; both boundary values are stable.
C3_StrictThresholds ==
    Returned("getTrendInfo") =>
        /\ ret.direction \in {"rising", "falling", "stable"}
        /\ (ret.direction = "rising" <=> QLt(Lit(1, 100), arg.slope))
        /\ (ret.direction = "falling" <=> QLt(arg.slope, Lit(-1, 100)))
        /\ (ret.direction = "stable" <=>
              QLe(Lit(-1, 100), arg.slope) /\ QLe(arg.slope, Lit(1, 100)))

\* the boundary slope 0.01 has been classified, as stable
C3_Witness ==
    /\ Returned("getTrendInfo")
    /\ arg.slope = Lit(1, 100)
    /\ ret.direction = "stable"

\* C10: calculateStats of the empty sequence returns a summary whose every
\* field is 0.
C10_EmptyStatsAllZero ==
    Returned("calculateStats") /\ arg.readings = <<>> =>
        /\ DOMAIN ret = {"avgTemp", "avgHumidity", "avgParticulas", "minTemp",
                         "maxTemp", "minHumidity", "maxHumidity"}
        /\ \A f \in DOMAIN ret : ret[f] = Num(0)

C10_Witness ==
    /\ Returned("calculateStats")
    /\ arg.readings = <<>>
    /\ ret.avgTemp = Num(0)
    /\ ret.maxHumidity = Num(0)

Column(rs, f) == [k \in 1..Len(rs) |-> rs[k][f]]
IsLeastOf(v, xs) ==
    /\ \E k \in 1..Len(xs) : xs[k] = v
    /\ \A k \in 1..Len(xs) : QLe(v, xs[k])
IsGreatestOf(v, xs) ==
    /\ \E k \in 1..Len(xs) : xs[k] = v
    /\ \A k \in 1..Len(xs) : QLe(xs[k], v)
\* the mean of integers, rounded once: the exact sum divided by the count
ExactMean(xs) ==
    LET total == QSum([i \in 0..(Len(xs) - 1) |-> xs[i + 1]], Len(xs))
    IN  Round(Q(total[1], total[2] * Len(xs)))

\* C11: for every non-empty sequence of readings calculateStats returns, for
\* temperature and humidity, the mean as average, the least value as min and
\* the greatest value as max, and the mean of the particulate counts; for a
\* single reading the average, min and max of a metric equal its value.
C11_StatsOfNonEmpty ==
    Returned("calculateStats") /\ Len(arg.readings) >= 1 =>
        LET temps == Column(arg.readings, "temperatura")
            humidities == Column(arg.readings, "humidade")
            particulas == Column(arg.readings, "particulas")
        IN  /\ ret.avgTemp = Mean(temps)
            /\ ret.avgHumidity = Mean(humidities)
            /\ ret.avgParticulas = Mean(particulas)
            /\ IsIntSeries(temps) => ret.avgTemp = ExactMean(temps)
            /\ IsIntSeries(humidities) => ret.avgHumidity = ExactMean(humidities)
            /\ IsIntSeries(particulas) =>
                  ret.avgParticulas = ExactMean(particulas)
            /\ IsLeastOf(ret.minTemp, temps)
            /\ IsGreatestOf(ret.maxTemp, temps)
            /\ IsLeastOf(ret.minHumidity, humidities)
            /\ IsGreatestOf(ret.maxHumidity, humidities)
            /\ Len(arg.readings) = 1 =>
                  /\ ret.avgTemp = temps[1] /\ ret.minTemp = temps[1]
                  /\ ret.maxTemp = temps[1]
                  /\ ret.avgHumidity = humidities[1]
                  /\ ret.minHumidity = humidities[1]
                  /\ ret.maxHumidity = humidities[1]
                  /\ ret.avgParticulas = particulas[1]

\* three readings whose temperatures 21, 24, -2 put the least value last
C11_Witness ==
    /\ Returned("calculateStats")
    /\ Len(arg.readings) = 3
    /\ Column(arg.readings, "temperatura") = <<Num(21), Num(24), Num(-2)>>
    /\ ret.minTemp = Num(-2)
    /\ ret.maxTemp = Num(24)
    /\ ret.avgTemp = <<459, 32>>
    /\ ret.minHumidity = Num(40)
    /\ ret.maxHumidity = Num(55)

StatFields(metric) ==
    {"avg" \o metric, "min" \o metric, "max" \o metric}

C13_TrendDegenerateCases ==
    Returned("calculateTrend") =>
        /\ arg.data = <<>> => ret = [slope |-> Num(0), trendLine |-> <<>>]
        /\ Len(arg.data) = 1 =>
              ret.slope = Num(0) /\ ret.trendLine = arg.data
        /\ Len(arg.data) >= 1 =>
              LET denominator == TrendFit(arg.data).denominator
              IN  /\ denominator = Num(0) <=> Len(arg.data) = 1
                  /\ Len(arg.data) >= 2 => QLt(Num(0), denominator)
        /\ IsFinite(ret.slope)
        /\ \A k \in 1..Len(ret.trendLine) : IsFinite(ret.trendLine[k])

\* the single sample 0.1
C13_Witness ==
    /\ Returned("calculateTrend")
    /\ arg.data = <<Tenth>>
    /\ TrendFit(arg.data).denominator = Num(0)
    /\ ret = [slope |-> Num(0), trendLine |-> <<Tenth>>]

\* C14: a window of size 1 is the identity: calculateMovingAverage(data, 1)
\* equals data element by element.
C14_WindowOneIsIdentity ==
    Returned("calculateMovingAverage") /\ arg.windowSize = 1 =>
        /\ Len(ret) = Len(arg.data)
        /\ \A k \in 1..Len(arg.data) : ret[k] = arg.data[k]

C14_Witness ==
    /\ Returned("calculateMovingAverage")
    /\ arg.windowSize = 1
    /\ arg.data = <<Num(1), Tenth, Num(2), Tenth>>
    /\ ret = arg.data

\* C15 as stated: calculateMovingAverage called with windowSize <= 0 fails
\* with an invalid-argument error: it does not return a series.
C15_NonPositiveWindowFailsFast ==
    arg.fn = "calculateMovingAverage" /\ arg.windowSize <= 0 => pc # "done"

\* what the call returns instead: NaN at every index for windowSize 0, and 0
\* at every index for a negative windowSize
C15_DegradedSeries ==
    Returned("calculateMovingAverage") /\ arg.windowSize <= 0 =>
        /\ Len(ret) = Len(arg.data)
        /\ \A k \in 1..Len(ret) :
              ret[k] = IF arg.windowSize = 0 THEN NaN ELSE Num(0)

\* C16: the unit given to getTrendInfo does not affect the classification:
\* for every slope and every two units the results have the same direction,
\* icon and color.
C16_UnitDoesNotClassify ==
    Returned("getTrendInfo") =>
        \A u1, u2 \in Units :
            LET r1 == getTrendInfo(arg.slope, u1)
                r2 == getTrendInfo(arg.slope, u2)
            IN  /\ r1.direction = r2.direction
                /\ r1.icon = r2.icon
                /\ r1.color = r2.color
                /\ u1 = arg.unit =>
                      /\ ret.direction = r2.direction
                      /\ ret.icon = r2.icon
                      /\ ret.color = r2.color

\* a rising slope classified with the empty unit: only the text differs from
\* the result for degrees
C16_Witness ==
    /\ Returned("getTrendInfo")
    /\ arg.unit = ""
    /\ arg.slope = Lit(11, 1000)
    /\ ret.direction = "rising"
    /\ ret.color = getTrendInfo(arg.slope, "degC").color
    /\ ret.text # getTrendInfo(arg.slope, "degC").text

Within(lo, x, hi) == QLe(lo, x) /\ QLe(x, hi)
\* the running sum of the reduce call has rounded at no step
SumIsExact(xs) ==
    ReduceSum(xs) = QSum([i \in 0..(Len(xs) - 1) |-> xs[i + 1]], Len(xs))

\* C28 as stated: for every non-empty sequence of readings the summary
\* satisfies min <= average <= max for temperature and for humidity.
C28_AverageWithinRange ==
    Returned("calculateStats") /\ Len(arg.readings) >= 1 =>
        /\ Within(ret.minTemp, ret.avgTemp, ret.maxTemp)
        /\ Within(ret.minHumidity, ret.avgHumidity, ret.maxHumidity)

\* C28 amended: min <= average <= max holds for a metric whenever the sum of
\* its values is computed without rounding (integer values, for instance).
C28_AverageWithinRangeWhenExact ==
    Returned("calculateStats") /\ Len(arg.readings) >= 1 =>
        /\ SumIsExact(Column(arg.readings, "temperatura")) =>
              Within(ret.minTemp, ret.avgTemp, ret.maxTemp)
        /\ SumIsExact(Column(arg.readings, "humidade")) =>
              Within(ret.minHumidity, ret.avgHumidity, ret.maxHumidity)

\* two readings with temperatures 24 and 21: the average lies strictly
\* between min and max
C28_Witness ==
    /\ Returned("calculateStats")
    /\ Column(arg.readings, "temperatura") = <<Num(24), Num(21)>>
    /\ SumIsExact(Column(arg.readings, "temperatura"))
    /\ ret.avgTemp = <<45, 2>>
    /\ QLt(ret.minTemp, ret.avgTemp)
    /\ QLt(ret.avgTemp, ret.maxTemp)

(***************************************************************************)
(* The remote store.  A document is [id, data]; data is the record that    *)
(* doc.data() returns.  A query ordered by timestamp returns only the      *)
(* documents that have the field, and orders equal timestamps by document  *)
(* id in the direction of the query.                                       *)
(***************************************************************************)
METADATA_ID == "metadados"

\* the document ids of the model, in ascending order of id
IdOrder == <<"a1", "metadados", "r2", "r3">>
Rank(id) == CHOOSE k \in 1..Len(IdOrder) : IdOrder[k] = id

Timestamps == 1..MaxTimestamp

ReadingDoc(id, ts) ==
    [id |-> id, data |-> Reading(Num(20 + Rank(id)), Num(40), Num(3), ts)]

\* the reserved document: station configuration, with or without a timestamp
MetadataDocs ==
    {[id |-> METADATA_ID, data |-> [varNames |-> <<"temperatura", "humidade">>]]}
    \cup {[id |-> METADATA_ID,
           data |-> [varNames |-> <<"temperatura", "humidade">>, timestamp |-> ts]] :
          ts \in Timestamps}

DocsWithId(id) ==
    IF id = METADATA_ID THEN MetadataDocs
    ELSE {ReadingDoc(id, ts) : ts \in Timestamps}

\* no document with this id, or one
Opt(id) == {{}} \cup {{d} : d \in DocsWithId(id)}

\* every content of a station collection: at most one document per id
Stores ==
    {a \cup m \cup b \cup c :
        a \in Opt("a1"), m \in Opt(METADATA_ID), b \in Opt("r2"), c \in Opt("r3")}

HasTimestamp(d) == "timestamp" \in DOMAIN d.data

\* d comes before e in a query ordered by timestamp, ascending
Before(d, e) ==
    \/ d.data.timestamp < e.data.timestamp
    \/ d.data.timestamp = e.data.timestamp /\ Rank(d.id) < Rank(e.id)

\* the documents of ds in ascending order
RECURSIVE SortAsc(_)
SortAsc(ds) ==
    IF ds = {} THEN <<>>
    ELSE LET first == CHOOSE d \in ds : \A e \in ds \ {d} : Before(d, e)
         IN  <<first>> \o SortAsc(ds \ {first})

Take(s, n) == SubSeq(s, 1, Min2(n, Len(s)))

\* query(ref, orderBy('timestamp', 'desc'), limit(n)): snapshot.docs
QueryDesc(coll, n) ==
    Take(Reverse(SortAsc({d \in coll : HasTimestamp(d)})), n)

\* query(ref, where('timestamp', '>=', cutoff), orderBy('timestamp', 'asc'))
QueryFromAsc(coll, cutoff) ==
    SortAsc({d \in coll : HasTimestamp(d) /\ d.data.timestamp >= cutoff})

\* the data of the documents of docs, in order, that pass the id test
RECURSIVE PushReadings(_)
PushReadings(docs) ==
    IF docs = <<>> THEN <<>>
    ELSE IF Head(docs).id # METADATA_ID
    THEN <<Head(docs).data>> \o PushReadings(Tail(docs))
    ELSE PushReadings(Tail(docs))

(***************************************************************************)
(* firebaseService.ts: what each function returns once the store answered  *)
(***************************************************************************)
\* variant: the readings are returned in the order of the query
getAllReadings_NoReverse(docs) == PushReadings(docs)

\* getAllReadings, after getDocs resolved with snapshot.docs = docs
getAllReadings(docs) == Reverse(PushReadings(docs))

\* getReadings, after getDocs resolved
getReadings(docs) == PushReadings(docs)

\* Math.floor(Date.now() / 1000) - (hoursBack * 3600)
CutoffTime(nowMs, hoursBack) == (nowMs \div 1000) - hoursBack * 3600

\* variant: the first document is returned whatever its id
LatestFirst_NoSkip(docs) ==
    IF docs # <<>>
    THEN [step |-> "return", value |-> docs[1].data]
    ELSE [step |-> "return", value |-> Null]

\* variant: the top two documents are always fetched after the first
LatestFirst_AlwaysRequery(docs) ==
    IF docs # <<>>
    THEN [step |-> "requery", value |-> Null]
    ELSE [step |-> "return", value |-> Null]

\* getLatestReading, after the first getDocs resolved: the value returned,
\* or the step to the second query
LatestFirst(docs) ==
    IF docs # <<>>
    THEN IF docs[1].id = METADATA_ID
         THEN [step |-> "requery", value |-> Null]
         ELSE [step |-> "return", value |-> docs[1].data]
    ELSE [step |-> "return", value |-> Null]

\* the for loop over snapshot2.docs
RECURSIVE LatestSecond(_)
LatestSecond(docs) ==
    IF docs = <<>> THEN Null
    ELSE IF Head(docs).id # METADATA_ID THEN Head(docs).data
    ELSE LatestSecond(Tail(docs))

\* variant: the second query repeats the limit of the first
LatestRequery_LimitOne(coll) == QueryDesc(coll, 1)

\* the second query q2 of getLatestReading: snapshot2.docs
LatestRequery(coll) == QueryDesc(coll, 2)

\* variant: the try block ends before the second query
LatestCatch_FirstQueryOnly(phase) ==
    IF phase = "q2" THEN [phase |-> "threw", result |-> None]
    ELSE [phase |-> "returned", result |-> Null]

\* variant: the catch block throws the error again
LatestCatch_Rethrow(phase) == [phase |-> "threw", result |-> Null]

\* the catch block of getLatestReading (phase: the query that failed)
LatestCatch(phase) == [phase |-> "returned", result |-> Null]

\* the catch block of getAllReadings and of getReadings
ReadingsCatch == [phase |-> "returned", result |-> <<>>]

\* data.name
NameOf(data) == IF "name" \in DOMAIN data THEN data.name ELSE Undefined

\* variant: data.name is returned without the fallback to []
getAvailableStations_NoFallback(collectionsDoc) ==
    IF collectionsDoc.exists THEN NameOf(collectionsDoc.data) ELSE Arr(<<>>)

\* getAvailableStations, after getDoc resolved with collectionsDoc
getAvailableStations(collectionsDoc) ==
    IF collectionsDoc.exists
    THEN LET name == NameOf(collectionsDoc.data)
         IN  IF name \notin {Null, Undefined} THEN name ELSE Arr(<<>>)
    ELSE Arr(<<>>)

(***************************************************************************)
(* One call of a data-access function against a store.  Each await is a    *)
(* step of its own; the store answers it or fails it.  The content of the  *)
(* store does not change during the call.                                  *)
(***************************************************************************)
CollectionsRecords ==
    {Absent,
     Existing([owner |-> "nimbus"]),
     Existing([name |-> Null]),
     Existing([name |-> Arr(<<>>)]),
     Existing([name |-> Arr(<<"STATION_00", "STATION_01">>)])}

NowsMs == {3602500, 86403999}
HoursBacks == {1, 24}

DataInit ==
    /\ store \in Stores
    /\ collections \in CollectionsRecords
    /\ call = NoCall
    /\ PureIdle
    /\ ChartsIdle
    /\ HomeIdle

DataFrame ==
    UNCHANGED <<pc, arg, ret, store, collections, range, mode, readings,
                loading, refreshing, inflight, issued, shown, homeVars>>

\* queries counts the getDoc and getDocs calls made so far; the function runs
\* up to its first await when it is invoked
Invoke(op, param) ==
    /\ call' = [op |-> op, phase |-> "q1", param |-> param,
                result |-> None, failed |-> "no", queries |-> 1]
    /\ DataFrame

Idle == call.phase = "idle"

Awaiting(op, phase) == call.op = op /\ call.phase = phase

Resolve(outcome) ==
    /\ call' = [call EXCEPT !.phase = outcome.phase, !.result = outcome.result,
                            !.queries = IF outcome.phase = "q2"
                                        THEN call.queries + 1 ELSE call.queries]
    /\ DataFrame

\* failed records the await at which the store failed
Reject(outcome) ==
    /\ call' = [call EXCEPT !.phase = outcome.phase, !.result = outcome.result,
                            !.failed = call.phase]
    /\ DataFrame

GetLatestReading ==
    /\ Idle
    /\ Invoke("getLatestReading", 0)

LatestFirstAnswer ==
    /\ Awaiting("getLatestReading", "q1")
    /\ LET r == LatestFirst(QueryDesc(store, 1))
       IN  IF r.step = "requery"
           THEN Resolve([phase |-> "q2", result |-> None])
           ELSE Resolve([phase |-> "returned", result |-> r.value])

LatestFirstFailure ==
    /\ Awaiting("getLatestReading", "q1")
    /\ Reject(LatestCatch("q1"))

LatestSecondAnswer ==
    /\ Awaiting("getLatestReading", "q2")
    /\ Resolve([phase |-> "returned",
                result |-> LatestSecond(LatestRequery(store))])

LatestSecondFailure ==
    /\ Awaiting("getLatestReading", "q2")
    /\ Reject(LatestCatch("q2"))

GetAllReadings ==
    /\ Idle
    /\ \E maxCount \in 1..MaxCountArg : Invoke("getAllReadings", maxCount)

AllReadingsAnswer ==
    /\ Awaiting("getAllReadings", "q1")
    /\ Resolve([phase |-> "returned",
                result |-> getAllReadings(QueryDesc(store, call.param))])

AllReadingsFailure ==
    /\ Awaiting("getAllReadings", "q1")
    /\ Reject(ReadingsCatch)

GetReadings ==
    /\ Idle
    /\ \E nowMs \in NowsMs, hoursBack \in HoursBacks :
          Invoke("getReadings", CutoffTime(nowMs, hoursBack))

ReadingsAnswer ==
    /\ Awaiting("getReadings", "q1")
    /\ Resolve([phase |-> "returned",
                result |-> getReadings(QueryFromAsc(store, call.param))])

ReadingsFailure ==
    /\ Awaiting("getReadings", "q1")
    /\ Reject(ReadingsCatch)

GetAvailableStations ==
    /\ Idle
    /\ Invoke("getAvailableStations", 0)

StationsAnswer ==
    /\ Awaiting("getAvailableStations", "q1")
    /\ Resolve([phase |-> "returned", result |-> getAvailableStations(collections)])

StationsFailure ==
    /\ Awaiting("getAvailableStations", "q1")
    /\ Reject([phase |-> "returned", result |-> Arr(<<>>)])

DataNext ==
    \/ GetLatestReading
    \/ LatestFirstAnswer
    \/ LatestFirstFailure
    \/ LatestSecondAnswer
    \/ LatestSecondFailure
    \/ GetAllReadings
    \/ AllReadingsAnswer
    \/ AllReadingsFailure
    \/ GetReadings
    \/ ReadingsAnswer
    \/ ReadingsFailure
    \/ GetAvailableStations
    \/ StationsAnswer
    \/ StationsFailure

SpecData == DataInit /\ [][DataNext]_vars

(***************************************************************************)
(* Properties of the data-access functions.                                *)
(***************************************************************************)
Answered(op) == call.op = op /\ call.phase = "returned" /\ call.failed = "no"
Failed(op) == call.op = op /\ call.phase \in {"returned", "threw"} /\ call.failed # "no"

ReadingDocs == {d \in store : d.id # METADATA_ID /\ HasTimestamp(d)}
MetadataHasTimestamp == \E d \in store : d.id = METADATA_ID /\ HasTimestamp(d)

\* x is the data of the reserved document of the store
IsReserved(x) == \E d \in store : d.id = METADATA_ID /\ d.data = x

NonDecreasing(rs) ==
    \A k \in 1..(Len(rs) - 1) : rs[k].timestamp <= rs[k + 1].timestamp

\* C4: when the store answers, getAllReadings returns the fetched readings
\* in chronological order: the reverse of the store's descending result
\* without the reserved record, timestamps non-decreasing.
C4_AllReadingsChronological ==
    Answered("getAllReadings") =>
        LET desc == QueryDesc(store, call.param)
            kept == SelectSeq(desc, LAMBDA d : d.id # METADATA_ID)
        IN  /\ NonDecreasing(call.result)
            /\ Len(call.result) = Len(kept)
            /\ \A k \in 1..Len(kept) :
                  call.result[k] = kept[Len(kept) + 1 - k].data

\* two readings of different timestamps were fetched together with a
\* timestamped reserved record and came back in ascending order
C4_Witness ==
    /\ Answered("getAllReadings")
    /\ MetadataHasTimestamp
    /\ Len(call.result) = 2
    /\ call.result[1].timestamp < call.result[2].timestamp

\* C5: no element returned by getAllReadings or getReadings, and no value
\* returned by getLatestReading, is the reserved document.
C5_ReservedNeverReturned ==
    /\ call.op \in {"getAllReadings", "getReadings"} /\ call.phase = "returned" =>
          \A k \in 1..Len(call.result) : ~IsReserved(call.result[k])
    /\ call.op = "getLatestReading" /\ call.phase = "returned" =>
          ~IsReserved(call.result)

\* the reserved record carries the greatest timestamp and a reading was returned
MetadataSortsFirst ==
    /\ MetadataHasTimestamp
    /\ QueryDesc(store, 1)[1].id = METADATA_ID

C5_Witness ==
    /\ Answered("getLatestReading")
    /\ MetadataSortsFirst
    /\ call.result # Null

\* C6: when the store does not fail, getLatestReading returns a non-reserved
\* document of greatest timestamp when there is one, also when the reserved
\* record sorts first, and null when there is none.
C6_LatestIsGreatest ==
    Answered("getLatestReading") =>
        IF ReadingDocs # {}
        THEN \E d \in ReadingDocs :
                /\ call.result = d.data
                /\ \A e \in ReadingDocs : e.data.timestamp <= d.data.timestamp
        ELSE call.result = Null

\* the reserved record sorted first, the second query ran, and the reading
\* behind it was returned
C6_Witness ==
    /\ Answered("getLatestReading")
    /\ MetadataSortsFirst
    /\ Cardinality(ReadingDocs) >= 2
    /\ \E d \in ReadingDocs : call.result = d.data

\* C8: a failure of the store never leaves a data-access read as an
\* exception: getAllReadings and getReadings return [], getLatestReading
\* returns null, at the first and at the second query.
C8_FailuresSwallowed ==
    /\ call.phase # "threw"
    /\ Failed("getAllReadings") \/ Failed("getReadings") => call.result = <<>>
    /\ Failed("getLatestReading") => call.result = Null

\* the second query of getLatestReading failed
C8_Witness ==
    /\ Failed("getLatestReading")
    /\ call.failed = "q2"
    /\ call.phase = "returned"

\* C9: getAvailableStations returns the stored station identifiers when the
\* record exists with a name list, and [] when the record is absent, has no
\* name list, or the read fails; it never throws.
C9_StationsOrEmpty ==
    call.op = "getAvailableStations" /\ call.phase # "q1" =>
        /\ call.phase = "returned"
        /\ call.result =
              IF /\ call.failed = "no"
                 /\ collections.exists
                 /\ "name" \in DOMAIN collections.data
                 /\ collections.data.name.js = "array"
              THEN collections.data.name
              ELSE Arr(<<>>)

\* the record exists without a name list and [] was returned
C9_Witness ==
    /\ Answered("getAvailableStations")
    /\ collections.exists
    /\ "name" \notin DOMAIN collections.data
    /\ call.result = Arr(<<>>)

\* the n most recent readings of the collection, oldest first
MostRecentReadings(n) ==
    LET recent == QueryDesc(ReadingDocs, n)
    IN  Reverse([k \in 1..Len(recent) |-> recent[k].data])

\* C22 as stated: when the store does not fail, getAllReadings returns
\* exactly the min(maxCount, k) most recent readings, k being the number of
\* non-reserved documents, also when the reserved document is among the
\* maxCount most recent documents; never more than maxCount elements.
C22_MostRecentUpToMaxCount ==
    Answered("getAllReadings") =>
        /\ Len(call.result) = Min2(call.param, Cardinality(ReadingDocs))
        /\ call.result = MostRecentReadings(call.param)
        /\ Len(call.result) <= call.param

\* what is returned instead: the readings among the maxCount most recent
\* documents, one fewer than asked for when the reserved document is among
\* them and the collection holds at least maxCount readings
C22_ReadingsAmongMostRecentDocuments ==
    Answered("getAllReadings") =>
        LET top == QueryDesc(store, call.param)
            reserved == {k \in 1..Len(top) : top[k].id = METADATA_ID}
        IN  /\ Len(call.result) = Len(top) - Cardinality(reserved)
            /\ call.result = MostRecentReadings(Len(top) - Cardinality(reserved))
            /\ Len(call.result) <= call.param

\* C19 as stated: every invocation of a data-access operation issues exactly
\* one query to the store.
C19_ExactlyOneQuery ==
    call.phase = "returned" => call.queries = 1

\* C19 amended: getAvailableStations, getAllReadings and getReadings issue
\* exactly one query; getLatestReading issues one query, and a second one
\* exactly when the first is answered with the reserved record.
C19_OneQueryOrRequery ==
    call.phase = "returned" =>
        /\ call.op \in {"getAvailableStations", "getAllReadings", "getReadings"}
              => call.queries = 1
        /\ call.op = "getLatestReading" =>
              call.queries = IF call.failed # "q1" /\ MetadataSortsFirst
                             THEN 2 ELSE 1

\* the second query of getLatestReading has been answered with a reading
C19_Witness ==
    /\ Answered("getLatestReading")
    /\ call.queries = 2
    /\ call.result # Null

(***************************************************************************)
(* ChartsScreen (charts.tsx).  A loadReadings invocation is suspended at   *)
(* its await until the response of the store is delivered; the store       *)
(* answers the requests it holds in any order, and the station keeps       *)
(* writing readings.                                                       *)
(***************************************************************************)
Ranges == {"24h", "7d", "30d"}
Modes == {"overview", "analysis"}

\* getReadingsCount for the range r
getReadingsCount(r) ==
    CASE r = "24h" -> 50
      [] r = "7d" -> 200
      [] r = "30d" -> 500
      [] OTHER -> 50

ChartsInit ==
    /\ ChartsIdle
    /\ store \in {{ReadingDoc("a1", 1)},
                  {ReadingDoc("a1", 1),
                   [id |-> METADATA_ID,
                    data |-> [varNames |-> <<"temperatura", "humidade">>,
                              timestamp |-> 1]]}}
    /\ collections = Absent
    /\ call = NoCall
    /\ PureIdle
    /\ HomeIdle

ChartsFrame == UNCHANGED <<pc, arg, ret, collections, call, homeVars>>

InflightIds == {r.id : r \in inflight}

\* loadReadings up to its await: setLoading(true) and the request of
\* getAllReadings(selectedStation, getReadingsCount()) for the range r
loadReadings(r, fromRefresh) ==
    /\ issued < MaxFetches
    /\ loading' = TRUE
    /\ issued' = issued + 1
    /\ inflight' = inflight \cup
          {[id |-> issued + 1, count |-> getReadingsCount(r),
            refresh |-> fromRefresh, status |-> "sent", data |-> <<>>]}

\* useEffect(() => { loadReadings(); }, [range]) after the first render
Mount ==
    /\ issued = 0
    /\ loadReadings(range, FALSE)
    /\ UNCHANGED <<range, mode, readings, refreshing, shown, store>>
    /\ ChartsFrame

\* variant: the effect runs after every press of a range button
RangeEffect_EveryPress(r) == loadReadings(r, FALSE)

\* useEffect(() => { loadReadings(); }, [range]) after setRange(r): the
\* effect runs only when the value of range has changed
RangeEffect(r) ==
    IF r # range THEN loadReadings(r, FALSE)
    ELSE UNCHANGED <<loading, issued, inflight>>

\* onPress of a range button: setRange(r), and the effect of the next
\* render; a press of the current range changes nothing
SelectRange ==
    /\ issued > 0
    /\ \E r \in Ranges :
          /\ range' = r
          /\ RangeEffect(r)
    /\ UNCHANGED <<mode, readings, refreshing, shown, store>>
    /\ ChartsFrame

\* onPress of a mode button
SelectMode ==
    /\ issued > 0
    /\ \E m \in Modes \ {mode} : mode' = m
    /\ UNCHANGED <<range, readings, loading, refreshing, inflight, issued,
                   shown, store>>
    /\ ChartsFrame

\* onRefresh up to the await of loadReadings
onRefresh ==
    /\ issued > 0
    /\ refreshing' = TRUE
    /\ loadReadings(range, TRUE)
    /\ UNCHANGED <<range, mode, readings, shown, store>>
    /\ ChartsFrame

\* the store answers the query of one request
StoreAnswers ==
    /\ \E req \in inflight :
          /\ req.status = "sent"
          /\ inflight' = (inflight \ {req}) \cup
                {[req EXCEPT !.status = "answered",
                             !.data = getAllReadings(QueryDesc(store, req.count))]}
    /\ UNCHANGED <<range, mode, readings, loading, refreshing, issued, shown, store>>
    /\ ChartsFrame

\* the query of one request fails: getAllReadings returns [] from its catch
StoreFails ==
    /\ \E req \in inflight :
          /\ req.status = "sent"
          /\ inflight' = (inflight \ {req}) \cup
                {[req EXCEPT !.status = "answered", !.data = ReadingsCatch.result]}
    /\ UNCHANGED <<range, mode, readings, loading, refreshing, issued, shown, store>>
    /\ ChartsFrame

\* variant: a response is stored only if its request is the latest issued
Resume_LatestOnly(req) ==
    /\ readings' = IF req.id = issued THEN req.data ELSE readings
    /\ shown' = IF req.id = issued THEN req.id ELSE shown
    /\ loading' = FALSE
    /\ refreshing' = IF req.refresh THEN FALSE ELSE refreshing

\* loadReadings after its await: setReadings(data), finally
\* setLoading(false); then onRefresh after its await: setRefreshing(false)
Resume(req) ==
    /\ readings' = req.data
    /\ shown' = req.id
    /\ loading' = FALSE
    /\ refreshing' = IF req.refresh THEN FALSE ELSE refreshing

\* the response of one request arrives
Deliver ==
    /\ \E req \in inflight :
          /\ req.status = "answered"
          /\ Resume(req)
          /\ inflight' = inflight \ {req}
    /\ UNCHANGED <<range, mode, issued, store>>
    /\ ChartsFrame

\* the station writes a reading, newer than the stored ones, under the
\* first unused document id
StationWrites ==
    /\ LET stored == {d \in store : d.id # METADATA_ID}
           unused == {id \in {"a1", "r2", "r3"} : \A d \in store : d.id # id}
       IN  /\ unused # {}
           /\ \E ts \in Timestamps :
                 /\ \E d \in stored : d.data.timestamp = ts - 1
                 /\ \A d \in stored : d.data.timestamp < ts
                 /\ store' = store \cup
                       {ReadingDoc(CHOOSE id \in unused :
                           \A other \in unused : Rank(id) <= Rank(other), ts)}
    /\ UNCHANGED <<range, mode, readings, loading, refreshing, inflight,
                   issued, shown>>
    /\ ChartsFrame

ChartsNext ==
    \/ Mount
    \/ SelectRange
    \/ SelectMode
    \/ onRefresh
    \/ StoreAnswers
    \/ StoreFails
    \/ Deliver
    \/ StationWrites

SpecCharts == ChartsInit /\ [][ChartsNext]_vars

\* C7: a new fetch does not cancel a fetch in flight, and a response is
\* stored whatever its position in the order of issue.
C7_NoCancelNoGuard ==
    [][/\ (issued' # issued => InflightIds \subseteq InflightIds')
       /\ \A req \in inflight :
             req.id \notin InflightIds' =>
                 /\ readings' = req.data
                 /\ shown' = req.id]_vars

\* no fetch is in flight and the stored readings are those of the first
\* request, although a later request was issued and answered with more
C7_Witness ==
    /\ inflight = {}
    /\ issued >= 2
    /\ shown = 1
    /\ Len(readings) < Cardinality({d \in store : d.id # METADATA_ID})

\* C21 as stated: the loading flag is true in every state in which at least
\* one fetch is in flight, so readings are never rendered while a fetch is
\* pending.
C21_LoadingWhileInFlight ==
    inflight # {} => loading

\* what holds instead: the flag is true while the latest issued fetch is in
\* flight and no other fetch has ended since it was issued; the end of any
\* fetch clears it
C21_ClearedByAnyCompletion ==
    [][/\ issued' # issued => loading'
       /\ (\E req \in inflight : req.id \notin InflightIds') => ~loading']_vars

\* C27: selecting a range other than the current one issues exactly one
\* fetch, for the count of the new range (24h: 50, 7d: 200, 30d: 500);
\* a press of the current range or a switch of the mode issues no fetch and
\* leaves the stored readings unchanged.
C27_RangeChangeFetchesOnce ==
    [][/\ range' # range =>
             /\ issued' = issued + 1
             /\ readings' = readings
             /\ \E req \in inflight' :
                   /\ inflight' = inflight \cup {req}
                   /\ req.id = issued'
                   /\ req.status = "sent"
                   /\ req.count = CASE range' = "24h" -> 50
                                     [] range' = "7d" -> 200
                                     [] range' = "30d" -> 500
       /\ mode' # mode =>
             /\ issued' = issued /\ inflight' = inflight
             /\ readings' = readings /\ range' = range
       /\ range' = range /\ issued' # issued =>
             \/ issued = 0
             \/ \E req \in inflight' \ inflight : req.refresh]_vars

\* the fetch in flight is the one for 30 days, issued by the press of that
\* range, after a switch of the mode that issued none
C27_Witness ==
    /\ range = "30d"
    /\ mode = "analysis"
    /\ issued = 2
    /\ \E req \in inflight :
          req.id = issued /\ req.count = 500 /\ ~req.refresh

(***************************************************************************)
(* HomeScreen (index.tsx).  A loadReading invocation is suspended at its   *)
(* await of getLatestReading, which itself awaits one or two queries of    *)
(* the collection named by the station; the store answers the invocations  *)
(* in any order.  The collections do not change while the screen is open.  *)
(***************************************************************************)
StationIds == {"STATION_00", "STATION_01", "STATION_02"}
Elements(seq) == {seq[k] : k \in 1..Len(seq)}

HomeCollections ==
    {Absent,
     Existing([name |-> Arr(<<"STATION_01">>)]),
     Existing([name |-> Arr(<<"STATION_00", "STATION_01">>)]),
     Existing([name |-> Arr(<<"STATION_01", "STATION_02">>)])}

TimestampedMetadata(ts) ==
    [id |-> METADATA_ID,
     data |-> [varNames |-> <<"temperatura", "humidade">>, timestamp |-> ts]]

HomeDbs ==
    {[st \in StationIds |->
        CASE st = "STATION_00" -> {}
          [] st = "STATION_01" -> {ReadingDoc("a1", 1)}
          [] OTHER -> {ReadingDoc("r2", 2), TimestampedMetadata(3)}],
     [st \in StationIds |->
        CASE st = "STATION_00" -> {ReadingDoc("r3", 1), ReadingDoc("a1", 2)}
          [] st = "STATION_01" -> {TimestampedMetadata(1)}
          [] OTHER -> {ReadingDoc("r2", 2)}]}

HomeInit ==
    /\ stations = <<>>
    /\ selectedStation = DefaultStation
    /\ reading = Null
    /\ error = Null
    /\ loading = TRUE
    /\ refreshing = FALSE
    /\ stationsCall = [status |-> "idle", data |-> Arr(<<>>)]
    /\ inflight = {}
    /\ issued = 0
    /\ completed = <<>>
    /\ sinceFailure = FALSE
    /\ db \in HomeDbs
    /\ collections \in HomeCollections
    /\ store = {}
    /\ call = NoCall
    /\ range = "24h"
    /\ mode = "overview"
    /\ readings = <<>>
    /\ shown = 0
    /\ PureIdle

HomeFrame ==
    UNCHANGED <<pc, arg, ret, store, collections, call, range, mode, readings,
                shown, db>>

\* loadReading up to its await: setLoading(true), setError(null) and the
\* first query of getLatestReading(station)
loadReading(station, fromRefresh) ==
    /\ issued < MaxFetches
    /\ loading' = TRUE
    /\ error' = Null
    /\ issued' = issued + 1
    /\ inflight' = inflight \cup
          {[id |-> issued + 1, station |-> station, refresh |-> fromRefresh,
            status |-> "q1", data |-> Null, failed |-> "no"]}

\* the two effects after the first render: loadStations() up to its await,
\* and loadReading() for the initial station
HomeMount ==
    /\ issued = 0
    /\ stationsCall.status = "idle"
    /\ stationsCall' = [stationsCall EXCEPT !.status = "sent"]
    /\ selectedStation # ""
    /\ loadReading(selectedStation, FALSE)
    /\ UNCHANGED <<stations, selectedStation, reading, refreshing, completed,
                   sinceFailure>>
    /\ HomeFrame

\* the store answers the getDoc of getAvailableStations
StationListAnswers ==
    /\ stationsCall.status = "sent"
    /\ stationsCall' = [status |-> "answered",
                        data |-> getAvailableStations(collections)]
    /\ UNCHANGED <<stations, selectedStation, reading, error, loading,
                   refreshing, inflight, issued, completed, sinceFailure>>
    /\ HomeFrame

\* the getDoc fails: getAvailableStations returns [] from its catch
StationListFails ==
    /\ stationsCall.status = "sent"
    /\ stationsCall' = [status |-> "answered", data |-> Arr(<<>>)]
    /\ UNCHANGED <<stations, selectedStation, reading, error, loading,
                   refreshing, inflight, issued, completed, sinceFailure>>
    /\ HomeFrame

\* variant: the station list is stored and the selection is left alone
StationsArrive_NoAutoSelect ==
    /\ stationsCall.status = "answered"
    /\ stationsCall' = [stationsCall EXCEPT !.status = "done"]
    /\ stations' = stationsCall.data.items
    /\ UNCHANGED <<selectedStation, loading, error, issued, inflight>>
    /\ UNCHANGED <<reading, refreshing, completed, sinceFailure>>
    /\ HomeFrame

\* loadStations after its await: setStations, and setSelectedStation of the
\* first station when the list does not include the selected station of the
\* first render; the effect on selectedStation then runs loadReading
StationsArrive ==
    /\ stationsCall.status = "answered"
    /\ stationsCall' = [stationsCall EXCEPT !.status = "done"]
    /\ LET availableStations == stationsCall.data.items
       IN  /\ stations' = availableStations
           /\ IF /\ Len(availableStations) > 0
                 /\ DefaultStation \notin Elements(availableStations)
              THEN /\ selectedStation' = availableStations[1]
                   /\ IF availableStations[1] # selectedStation
                      THEN loadReading(availableStations[1], FALSE)
                      ELSE UNCHANGED <<loading, error, issued, inflight>>
              ELSE UNCHANGED <<selectedStation, loading, error, issued,
                               inflight>>
    /\ UNCHANGED <<reading, refreshing, completed, sinceFailure>>
    /\ HomeFrame

\* onPress of the button of a station other than the selected one:
\* setSelectedStation(station), and the effect of the next render
PressStation ==
    /\ Len(stations) > 1
    /\ \E station \in Elements(stations) \ {selectedStation} :
          /\ selectedStation' = station
          /\ loadReading(station, FALSE)
    /\ sinceFailure' = FALSE
    /\ UNCHANGED <<stations, reading, refreshing, stationsCall, completed>>
    /\ HomeFrame

\* onRefresh of the home screen up to the await of loadReading
HomeOnRefresh ==
    /\ issued > 0
    /\ refreshing' = TRUE
    /\ loadReading(selectedStation, TRUE)
    /\ sinceFailure' = FALSE
    /\ UNCHANGED <<stations, selectedStation, reading, stationsCall, completed>>
    /\ HomeFrame

\* onPress of Retry, which the error panel shows when error && !loading
Retry ==
    /\ error # Null
    /\ ~loading
    /\ loadReading(selectedStation, FALSE)
    /\ sinceFailure' = FALSE
    /\ UNCHANGED <<stations, selectedStation, reading, refreshing,
                   stationsCall, completed>>
    /\ HomeFrame

Update(req, status, data, failed) ==
    /\ inflight' = (inflight \ {req}) \cup
          {[req EXCEPT !.status = status, !.data = data, !.failed = failed]}
    /\ UNCHANGED <<stations, selectedStation, reading, error, loading,
                   refreshing, issued, stationsCall, completed, sinceFailure>>
    /\ HomeFrame

\* the store answers the first query of one invocation
HomeFirstAnswer ==
    \E req \in inflight :
        /\ req.status = "q1"
        /\ LET r == LatestFirst(QueryDesc(db[req.station], 1))
           IN  IF r.step = "requery"
               THEN Update(req, "q2", Null, "no")
               ELSE Update(req, "returned", r.value, "no")

\* the store answers the second query of one invocation
HomeSecondAnswer ==
    \E req \in inflight :
        /\ req.status = "q2"
        /\ Update(req, "returned",
                  LatestSecond(LatestRequery(db[req.station])), "no")

\* a query of one invocation fails: the catch block of getLatestReading
HomeStoreFails ==
    \E req \in inflight :
        /\ req.status \in {"q1", "q2"}
        /\ LET outcome == LatestCatch(req.status)
           IN  Update(req, outcome.phase,
                      IF outcome.phase = "returned" THEN outcome.result
                      ELSE Null,
                      req.status)

\* variant: the response is applied only if its request is the latest issued
HomeResume_LatestOnly(req) ==
    /\ IF req.id # issued
       THEN UNCHANGED <<reading, error>>
       ELSE IF req.status = "threw"
       THEN error' = Str("Failed to load data") /\ reading' = reading
       ELSE IF req.data # Null
       THEN reading' = req.data /\ error' = error
       ELSE error' = Str("No readings available") /\ reading' = reading
    /\ loading' = FALSE
    /\ refreshing' = IF req.refresh THEN FALSE ELSE refreshing
    /\ inflight' = inflight \ {req}
    /\ issued' = issued

\* variant: an absent result starts the fetch again
HomeResume_FetchAgain(req) ==
    IF req.status = "returned" /\ req.data = Null /\ issued < MaxFetches
    THEN /\ UNCHANGED <<reading, loading>>
         /\ error' = Null
         /\ refreshing' = IF req.refresh THEN FALSE ELSE refreshing
         /\ issued' = issued + 1
         /\ inflight' = (inflight \ {req}) \cup
               {[id |-> issued + 1, station |-> req.station,
                 refresh |-> FALSE, status |-> "q1", data |-> Null,
                 failed |-> "no"]}
    ELSE /\ IF req.status = "threw"
            THEN error' = Str("Failed to load data") /\ reading' = reading
            ELSE IF req.data # Null
            THEN reading' = req.data /\ error' = error
            ELSE error' = Str("No readings available") /\ reading' = reading
         /\ loading' = FALSE
         /\ refreshing' = IF req.refresh THEN FALSE ELSE refreshing
         /\ inflight' = inflight \ {req}
         /\ issued' = issued

\* variant: an absent result also clears the stored reading
HomeResume_ClearReading(req) ==
    /\ IF req.status = "threw"
       THEN error' = Str("Failed to load data") /\ reading' = reading
       ELSE IF req.data # Null
       THEN reading' = req.data /\ error' = error
       ELSE error' = Str("No readings available") /\ reading' = Null
    /\ loading' = FALSE
    /\ refreshing' = IF req.refresh THEN FALSE ELSE refreshing
    /\ inflight' = inflight \ {req}
    /\ issued' = issued

\* variant: setLoading(false) and setRefreshing(false) run only after a
\* reading was stored
HomeResume_NoFinally(req) ==
    /\ IF req.status = "threw"
       THEN error' = Str("Failed to load data") /\ reading' = reading
       ELSE IF req.data # Null
       THEN reading' = req.data /\ error' = error
       ELSE error' = Str("No readings available") /\ reading' = reading
    /\ loading' = IF req.data # Null THEN FALSE ELSE loading
    /\ refreshing' = IF req.refresh /\ req.data # Null THEN FALSE ELSE refreshing
    /\ inflight' = inflight \ {req}
    /\ issued' = issued

\* loadReading after its await: setReading or setError('No readings
\* available'), the catch block, finally setLoading(false); then onRefresh
\* after its await: setRefreshing(false)
HomeResume(req) ==
    /\ IF req.status = "threw"
       THEN error' = Str("Failed to load data") /\ reading' = reading
       ELSE IF req.data # Null
       THEN reading' = req.data /\ error' = error
       ELSE error' = Str("No readings available") /\ reading' = reading
    /\ loading' = FALSE
    /\ refreshing' = IF req.refresh THEN FALSE ELSE refreshing
    /\ inflight' = inflight \ {req}
    /\ issued' = issued

\* getLatestReading of one invocation returns or throws
HomeDeliver ==
    /\ \E req \in inflight :
          /\ req.status \in {"returned", "threw"}
          /\ HomeResume(req)
          /\ completed' = Append(completed, req)
          /\ sinceFailure' = IF req.failed # "no" THEN TRUE ELSE sinceFailure
    /\ UNCHANGED <<stations, selectedStation, stationsCall>>
    /\ HomeFrame

HomeNext ==
    \/ HomeMount
    \/ StationListAnswers
    \/ StationListFails
    \/ StationsArrive
    \/ PressStation
    \/ HomeOnRefresh
    \/ Retry
    \/ HomeFirstAnswer
    \/ HomeSecondAnswer
    \/ HomeStoreFails
    \/ HomeDeliver

SpecHome == HomeInit /\ [][HomeNext]_vars

\* the three panels of the home screen, by their render conditions
LoadingPanel == loading
ErrorPanel == error # Null /\ ~loading
\* variant: the data card is rendered whatever the error
DataCard_IgnoreError == reading # Null /\ ~loading
DataCard == reading # Null /\ ~loading /\ error = Null

\* the invocation req ends in this step: its continuation runs
Ends(req) == req \in inflight /\ req.id \notin InflightIds'
Completed == Elements(completed)

\* C17: a store failure and the absence of a qualifying record are the same
\* to the caller: getLatestReading returns null and getAllReadings returns
\* [] in both cases, the home screen ends with 'No readings available' and
\* an unchanged reading in both, and never shows 'Failed to load data'.
C17_FailureLooksLikeAbsence ==
    [][/\ error' # Str("Failed to load data")
       /\ \A req \in inflight' :
             req.failed # "no" => req.status = "returned" /\ req.data = Null
       /\ \A req \in inflight :
             Ends(req) /\ req.data = Null =>
                 /\ error' = Str("No readings available")
                 /\ reading' = reading
                 /\ loading' = FALSE
       /\ ReadingsCatch.result = getAllReadings(<<>>)
       /\ LatestCatch("q1").result = LatestFirst(<<>>).value
       /\ LatestCatch("q2").result = LatestSecond(<<>>)]_vars

\* two fetches of the same station have ended, one by a store failure and
\* one with no record; the screen shows 'No readings available'
C17_Witness ==
    /\ inflight = {}
    /\ error = Str("No readings available")
    /\ reading = Null
    /\ \E c1, c2 \in Completed :
          /\ c1.station = c2.station
          /\ c1.failed # "no" /\ c1.data = Null
          /\ c2.failed = "no" /\ c2.data = Null
          /\ c1.id = issued

\* C18 as stated: after a fetch ended in a store failure no store request
\* is issued until the user acts (station press, pull-to-refresh, Retry),
\* and the failed fetch shows no earlier result.
C18_NoRequestUntilUserActs ==
    [][/\ sinceFailure /\ issued' # issued =>
             PressStation \/ HomeOnRefresh \/ Retry
       /\ \A req \in inflight :
             Ends(req) /\ req.failed # "no" =>
                 error' # Null /\ reading' = reading]_vars

\* C18 amended: the end of a fetch issues no request; after a fetch ended in
\* a store failure a request is issued only by a user action or by the
\* arrival of the station list, which selects and fetches its first station
\* when the initial station is not listed; the failed fetch sets the error
\* and stores no reading.
C18_NoAutomaticRetry ==
    [][/\ \A req \in inflight :
             Ends(req) => issued' = issued /\ InflightIds' \subseteq InflightIds
       /\ sinceFailure /\ issued' # issued =>
             PressStation \/ HomeOnRefresh \/ Retry \/ StationsArrive
       /\ \A req \in inflight :
             Ends(req) /\ req.failed # "no" =>
                 error' # Null /\ reading' = reading]_vars

\* the latest fetch ended in a store failure, nothing is in flight, the
\* station list has arrived and a further fetch could still be started
C18_Witness ==
    /\ sinceFailure
    /\ inflight = {}
    /\ stationsCall.status = "done"
    /\ issued < MaxFetches
    /\ \E c \in Completed : c.id = issued /\ c.failed # "no"
    /\ error = Str("No readings available")
    /\ ~loading

\* C20: a loadReading invocation does not cancel those in flight, and its
\* continuation stores the reading or the error message of its response
\* whatever the order of issue and whatever the selected station.
C20_NoOrderingToken ==
    [][/\ issued' # issued => InflightIds \subseteq InflightIds'
       /\ \A req \in inflight :
             Ends(req) /\ req.status = "returned" =>
                 IF req.data # Null
                 THEN reading' = req.data /\ error' = error
                 ELSE error' = Str("No readings available")
                         /\ reading' = reading]_vars

\* every fetch has ended and the latest issued one returned a reading, but
\* the error message of an earlier fetch is shown and the stored reading was
\* not returned by any fetch of the selected station
C20_Witness ==
    /\ inflight = {}
    /\ Len(completed) = issued
    /\ \E c \in Completed : c.id = issued /\ c.data # Null
    /\ error = Str("No readings available")
    /\ reading # Null
    /\ \A c \in Completed : c.station = selectedStation => c.data # reading
    /\ \E c \in Completed : c.station # selectedStation /\ c.data = reading

\* C23: at most one of the loading indicator, the error panel and the data
\* card is rendered in every reachable state of the home screen.
C23_PanelsExclusive ==
    /\ ~(LoadingPanel /\ ErrorPanel)
    /\ ~(LoadingPanel /\ DataCard)
    /\ ~(ErrorPanel /\ DataCard)

\* the error panel is rendered alone, although a reading is stored
C23_Witness ==
    /\ ErrorPanel
    /\ reading # Null
    /\ ~DataCard
    /\ ~LoadingPanel
    /\ inflight = {}

\* C24: the end of a fetch that returned null leaves reading and
\* selectedStation unchanged and sets only error to 'No readings available'
\* and loading to false (refreshing is cleared by onRefresh when the fetch
\* was its own); error is cleared only by the start of a fetch.
C24_AbsentCompletionFrame ==
    [][/\ \A req \in inflight :
             Ends(req) /\ req.status = "returned" /\ req.data = Null =>
                 /\ reading' = reading
                 /\ selectedStation' = selectedStation
                 /\ stations' = stations
                 /\ error' = Str("No readings available")
                 /\ loading' = FALSE
                 /\ refreshing' = IF req.refresh THEN FALSE ELSE refreshing
                 /\ issued' = issued
       /\ error # Null /\ error' = Null =>
             /\ issued' = issued + 1
             /\ loading'
             /\ InflightIds' = InflightIds \cup {issued'}]_vars

\* the fetch that ended last returned null after an earlier one had stored
\* a reading: the reading is still stored
C24_Witness ==
    /\ Len(completed) >= 2
    /\ completed[Len(completed)].data = Null
    /\ completed[Len(completed)].failed = "no"
    /\ reading # Null
    /\ error = Str("No readings available")
    /\ ~loading

\* C25: once the station list is loaded and non-empty the selected station
\* is one of its members: the first listed station is selected when the
\* initial 'STATION_00' is not listed, and every later selection is a
\* listed station.
C25_SelectedStationListed ==
    [][/\ stations' # <<>> => selectedStation' \in Elements(stations')
       /\ stations' # stations =>
             /\ stations = <<>>
             /\ selectedStation' =
                   IF DefaultStation \in Elements(stations')
                   THEN DefaultStation ELSE stations'[1]
       /\ selectedStation' # selectedStation =>
             selectedStation' \in Elements(stations')]_vars

\* the list arrived without the initial station and the user then pressed
\* the second listed station
C25_Witness ==
    /\ stationsCall.status = "done"
    /\ stations = <<"STATION_01", "STATION_02">>
    /\ selectedStation = "STATION_02"
    /\ \E c \in Completed : c.station = "STATION_01"

(***************************************************************************)
(* Both screens under fairness.  A behaviour is one of the charts screen   *)
(* or one of the home screen, told apart by the station collections that   *)
(* only the home screen reads.  The effects of the first render run, the   *)
(* store eventually answers or fails every query, and a continuation whose *)
(* await has resolved eventually runs; the user is under no obligation.    *)
(* The collections do not change.                                          *)
(***************************************************************************)
OnHome == DOMAIN db # {}
OnCharts == DOMAIN db = {}

\* the home screen with the station list that replaces the initial station,
\* whose collection is empty
LiveInit ==
    \/ ChartsInit
    \/ /\ HomeInit
       /\ collections = Existing([name |-> Arr(<<"STATION_01", "STATION_02">>)])
       /\ db["STATION_00"] = {}

ChartsSteps ==
    /\ OnCharts
    /\ \/ Mount
       \/ SelectRange
       \/ SelectMode
       \/ onRefresh
       \/ StoreAnswers
       \/ StoreFails
       \/ Deliver

HomeSteps == OnHome /\ HomeNext

LiveNext == ChartsSteps \/ HomeSteps

\* the steps that need no user: effects of the first render, answers and
\* failures of the store, continuations
Automatic ==
    \/ OnCharts /\ (Mount \/ StoreFails \/ StoreAnswers \/ Deliver)
    \/ OnHome /\ (HomeMount \/ StationListAnswers \/ StationListFails
                     \/ StationsArrive \/ HomeFirstAnswer
                     \/ HomeSecondAnswer \/ HomeStoreFails \/ HomeDeliver)

\* an automatic step is taken whenever one stays possible
Fairness == WF_vars(Automatic)

SpecLive == LiveInit /\ [][LiveNext]_vars /\ Fairness

\* C26: under fairness, once no further fetch is issued every fetch ends:
\* nothing stays in flight, loading becomes false and stays false, and
\* refreshing, once set by a pull-to-refresh, becomes false again, whether
\* the store answers or fails.
C26_BookkeepingCompletes ==
    /\ <>[][issued' = issued]_vars => <>[](inflight = {} /\ ~loading)
    /\ <>[][issued' = issued]_vars => <>[](~refreshing)
    /\ refreshing ~> ~refreshing

\* a pull-to-refresh has ended by a store failure and everything is at rest
C26_Witness ==
    /\ inflight = {}
    /\ ~loading
    /\ ~refreshing
    /\ issued >= 2
    /\ OnHome
    /\ \E c \in Completed : c.refresh /\ c.failed # "no"

====
